---- MODULE Spec2Model ----
(***************************************************************************)
(* Model of the Pomodoro timer command (src/src/pomodoro.tsx): the React   *)
(* state of the Command component, the two LocalStorage keys, the wall     *)
(* clock, the closure captured by the 100 ms interval, the asynchronous     *)
(* mount-time loads, the asynchronous completion handler and the delayed   *)
(* auto-start callback.                                                    *)
(*                                                                         *)
(* Every action is one handler (or one settled await of an asynchronous    *)
(* handler) followed by the re-render it causes and the effects of that    *)
(* render (Render).  LocalStorage calls and HUD calls settle in less than  *)
(* one clock step, so the clock does not advance while one is pending;     *)
(* user commands may still interleave with them.                           *)
(***************************************************************************)
EXTENDS Integers, Sequences, FiniteSets, TLC

VARIABLES
  now,                  \* Date.now(), in milliseconds
  today,                \* new Date().toDateString(), as a day number
  prefs,                \* getPreferenceDurations(), fixed for a behaviour
  customDuration,       \* parseDuration(props.arguments.duration), 0 = null
  horizon,              \* the last clock reading of a behaviour
  timeLeft,             \* useState: seconds shown
  timerMode,            \* useState
  timerState,           \* useState
  startTime,            \* useState: milliseconds
  customTimerDuration,  \* useState: seconds
  stats,                \* useState
  storedTimer,          \* LocalStorage "pomodoro-timer-state": <<>> or <<snapshot>>
  storedStats,          \* LocalStorage "pomodoro-stats": <<>> or <<stats>>
  loadStatePending,     \* loadState() awaits its getItem
  loadStatsPending,     \* loadStats() awaits its getItem
  interval,             \* <<>> or <<closure>>: the setInterval callback's captured render
  handler,              \* the running handleTimerComplete, at one of its awaits
  autoStart,            \* <<>> or <<timeout>>: the pending setTimeout of handleTimerComplete
  hud,                  \* the last showHUD message of the process
  fired,                \* history: handleTimerComplete invocations of the current run
  fx,                   \* history: side effects issued for the last completed run
  cont,                 \* history: the last pause/resume pair
  focusDone,            \* history: Focus completions recorded so far (lifetime)
  doneDays,             \* history: the days on which a Focus session completed
  lastDoneDay,          \* history: the day of the most recent Focus completion, -1 = none
  doneToday,            \* history: the Focus completions recorded on day lastDoneDay
  text,                 \* a preference or argument string handed to a parser
  parsed,               \* <<>> or <<what the parser returned for text>>
  saving                \* <<>> or <<snapshot>>: a saveState whose setItem has not settled

vars == <<now, today, prefs, customDuration, horizon, timeLeft, timerMode, timerState,
          startTime, customTimerDuration, stats, storedTimer, storedStats,
          loadStatePending, loadStatsPending, interval, handler, autoStart, hud,
          fired, fx, cont, focusDone, doneDays, lastDoneDay, doneToday, text, parsed,
          saving>>

react == <<timeLeft, timerMode, timerState, startTime, customTimerDuration, stats>>
env == <<now, today, prefs, customDuration, horizon, text, parsed, saving>>
history == <<fired, fx, cont, focusDone, doneDays, lastDoneDay, doneToday>>

----------------------------------------------------------------------------
(* Bounds of the model *)

StartOfTime == 1000     \* the clock's first reading (Date.now() is never 0)
ClockStep == 2500       \* the clock is read every ClockStep milliseconds
MaxSeconds == 14        \* Spec: the clock stops this many seconds after StartOfTime
LongSeconds == 25       \* SpecFocus: the same, long enough for two focus sessions
MaxDay == 1             \* the last calendar day of a behaviour
PomodoroSecs == 10      \* the configured focus duration, in seconds
ShortBreakSecs == 11    \* the configured short break
LongBreakSecs == 12     \* the configured long break
ArgSecs == 11           \* a valid launch-argument duration
LongBreakEvery == 2     \* the configured long-break interval
MaxStored == 2          \* the largest lifetime count of a record found in storage
MaxLen == 4             \* the longest preference or argument string parsed
MaxLeft == 14           \* SpecLongFocus: no resume once more seconds than this are shown

(* Program constants *)

MsPerSec == 1000        \* Math.floor((Date.now() - startTime) / 1000)
AutoStartDelay == 2000  \* setTimeout(..., 2000)

MaxNow == StartOfTime + MaxSeconds * MsPerSec
MaxNowLong == StartOfTime + LongSeconds * MsPerSec

Max(a, b) == IF a >= b THEN a ELSE b

\* JavaScript's a || b on numbers: 0 is falsy
OrElse(a, b) == IF a = 0 THEN b ELSE a

----------------------------------------------------------------------------
(* parseDuration and parseInt.  A string is a sequence of characters.      *)

Chars == {"0", "1", "2", "4", "5", "s", "m", "h", "H", " ", "a", "-"}

Texts == UNION {[1..n -> Chars] : n \in 0..MaxLen}

Whitespace == {" "}

Digit == <<"0", "1", "2", "3", "4", "5", "6", "7", "8", "9">>

IsDigit(c) == \E i \in 1..10 : Digit[i] = c

DigitValue(c) == (CHOOSE i \in 1..10 : Digit[i] = c) - 1

RECURSIVE TrimStart(_)
TrimStart(str) ==
  IF str # <<>> /\ Head(str) \in Whitespace THEN TrimStart(Tail(str)) ELSE str

RECURSIVE TrimEnd(_)
TrimEnd(str) ==
  IF str # <<>> /\ str[Len(str)] \in Whitespace
  THEN TrimEnd(SubSeq(str, 1, Len(str) - 1))
  ELSE str

trim(str) == TrimEnd(TrimStart(str))

toLowerCase(c) == CASE c = "S" -> "s" [] c = "M" -> "m" [] c = "H" -> "h" [] OTHER -> c

RECURSIVE DigitPrefix(_)
DigitPrefix(str) ==
  IF str # <<>> /\ IsDigit(Head(str)) THEN <<Head(str)>> \o DigitPrefix(Tail(str)) ELSE <<>>

RECURSIVE Decimal(_)
Decimal(digits) ==
  IF digits = <<>> THEN 0
  ELSE Decimal(SubSeq(digits, 1, Len(digits) - 1)) * 10 + DigitValue(digits[Len(digits)])

\* parseInt(string): <<>> is NaN.  Leading whitespace is skipped, a sign is
\* read, and the longest prefix of decimal digits is the number.
parseInt(str) ==
  LET t == TrimStart(str)
      signed == t # <<>> /\ Head(t) \in {"-", "+"}
      digits == DigitPrefix(IF signed THEN Tail(t) ELSE t)
  IN IF digits = <<>> THEN <<>>
     ELSE IF signed /\ Head(t) = "-" THEN <<0 - Decimal(digits)>> ELSE <<Decimal(digits)>>

\* str.match(/^(\d+)(s|m|h)?$/i): <<>> is null, else <<match[1], match[2]>>
\* with "" for an undefined match[2]
match(str) ==
  LET n == Len(str)
      hasUnit == n > 0 /\ toLowerCase(str[n]) \in {"s", "m", "h"}
      digits == IF hasUnit THEN SubSeq(str, 1, n - 1) ELSE str
  IN IF digits # <<>> /\ \A i \in 1..Len(digits) : IsDigit(digits[i])
     THEN <<digits, IF hasUnit THEN str[n] ELSE "">>
     ELSE <<>>

\* a range check that excludes its ends
InRangeOpen(seconds) == ~(seconds <= 10 \/ seconds >= 14400)

InRange(seconds) == ~(seconds < 10 \/ seconds > 14400)

\* parseDuration(input): 0 is null
parseDuration(input) ==
  IF input = <<>> \/ trim(input) = <<>> THEN 0
  ELSE LET m == match(trim(input))
       IN IF m = <<>> THEN 0
          ELSE LET value == parseInt(m[1])[1]
                   unit == toLowerCase(IF m[2] = "" THEN "m" ELSE m[2])
                   seconds == CASE unit = "s" -> value
                                [] unit = "m" -> value * 60
                                [] unit = "h" -> value * 3600
                                [] OTHER -> value * 60
               IN IF InRange(seconds) THEN seconds ELSE 0

\* parseInt(prefs.longBreakInterval) || 4: NaN and 0 are falsy
longBreakInterval(configured) ==
  LET n == parseInt(configured)
  IN IF n = <<>> THEN 4 ELSE OrElse(n[1], 4)

----------------------------------------------------------------------------
(* getPreferenceDurations and getDuration *)

Prefs(auto) ==
  [pomodoro |-> PomodoroSecs, shortBreak |-> ShortBreakSecs, longBreak |-> LongBreakSecs,
   autoStartBreaks |-> auto, longBreakInterval |-> LongBreakEvery]

\* preferences with the focus session longer than the breaks, as the defaults
\* (25 * 60, 5 * 60, 15 * 60) are
PrefsLongFocus(auto) ==
  [pomodoro |-> LongBreakSecs, shortBreak |-> PomodoroSecs, longBreak |-> ShortBreakSecs,
   autoStartBreaks |-> auto, longBreakInterval |-> LongBreakEvery]

getDuration(mode) ==
  CASE mode = "pomodoro" -> prefs.pomodoro
    [] mode = "shortBreak" -> prefs.shortBreak
    [] mode = "longBreak" -> prefs.longBreak

\* the duration expression shared by the interval callback, handleResume and handleReset
ActiveDuration(mode, custom) ==
  IF mode = "pomodoro" /\ custom # prefs.pomodoro THEN custom ELSE getDuration(mode)

\* Math.max(0, duration - Math.floor((Date.now() - start) / 1000))
Remaining(duration, start, t) == Max(0, duration - ((t - start) \div MsPerSec))

ZeroStats(day) ==
  [completedPomodoros |-> 0, totalFocusTime |-> 0, currentStreak |-> 0,
   todayPomodoros |-> 0, lastCompletedDate |-> day]

\* the object saveState serialises, from the values of one render
Snapshot(tl, tm, ts, st, cd) ==
  [timeLeft |-> tl, timerMode |-> tm, timerState |-> ts, startTime |-> st,
   customTimerDuration |-> cd]

\* stored values that are no snapshot: a text JSON.parse throws on, and a JSON
\* text without the snapshot's fields
Unparseable == [text |-> "{"]
EmptyObject == [text |-> "{}"]
Corrupt == {Unparseable, EmptyObject}

NoHandler == [pc |-> "idle", mode |-> "pomodoro", stats |-> ZeroStats(0),
              custom |-> 0, newStats |-> ZeroStats(0)]
NoFx == [duration |-> 0, removed |-> 0, statsUpdated |-> 0, huds |-> 0, scheduled |-> 0]
NoCont == [pausedLeft |-> -1, pausedAt |-> -1, resumedAt |-> -1, exited |-> FALSE]

----------------------------------------------------------------------------
(* A render and its effects.  The interval effect re-runs when one of      *)
(* [timerState, startTime, timerMode, customTimerDuration] changed: the    *)
(* old interval is cleared and, when the timer is running with time left,  *)
(* a new one is set whose callback closes over this render, its stats      *)
(* included.  The save effect re-runs when one of [timeLeft, timerState,   *)
(* timerMode] changed and calls saveState while running.  `stored` is the  *)
(* snapshot key as the handler itself left it.                             *)

\* the interval effect without its cleanup (no clearInterval): an old
\* interval is never cleared
IntervalAfterNoCleanup(tl, tm, ts, st, cd, sts) ==
  IF <<ts, st, tm, cd>> # <<timerState, startTime, timerMode, customTimerDuration>>
     /\ ts = "running" /\ tl > 0
  THEN <<[stats |-> sts]>>
  ELSE interval

IntervalAfter(tl, tm, ts, st, cd, sts) ==
  IF <<ts, st, tm, cd>> # <<timerState, startTime, timerMode, customTimerDuration>>
  THEN IF ts # "running" \/ tl <= 0 THEN <<>> ELSE <<[stats |-> sts]>>
  ELSE interval

SavedAfter(tl, tm, ts, st, cd, stored) ==
  IF <<tl, ts, tm>> # <<timeLeft, timerState, timerMode>> /\ ts = "running"
  THEN <<Snapshot(tl, tm, ts, st, cd)>>
  ELSE stored

Render(tl, tm, ts, st, cd, sts, stored) ==
  /\ timeLeft' = tl
  /\ timerMode' = tm
  /\ timerState' = ts
  /\ startTime' = st
  /\ customTimerDuration' = cd
  /\ stats' = sts
  /\ interval' = IntervalAfter(tl, tm, ts, st, cd, sts)
  /\ storedTimer' = SavedAfter(tl, tm, ts, st, cd, stored)

----------------------------------------------------------------------------
(* Construction: useState initialisers and the mount effect *)

Arguments == {0, ArgSecs}

InitialDuration(arg) == OrElse(arg, prefs.pomodoro)

CommandWith(last, configured) ==
  /\ now = StartOfTime
  /\ today = 0
  /\ horizon = last
  /\ prefs \in configured
  /\ customDuration \in Arguments
  /\ timeLeft = InitialDuration(customDuration)
  /\ timerMode = "pomodoro"
  /\ timerState = "idle"
  /\ startTime = now
  /\ customTimerDuration = InitialDuration(customDuration)
  /\ stats = ZeroStats(today)
  /\ storedTimer = <<>>
  /\ storedStats = <<>>
  /\ loadStatePending = TRUE
  /\ loadStatsPending = TRUE
  /\ interval = <<>>
  /\ handler = NoHandler
  /\ autoStart = <<>>
  /\ hud = "none"
  /\ fired = 0
  /\ fx = NoFx
  /\ cont = NoCont
  /\ focusDone = 0
  /\ doneDays = {}
  /\ lastDoneDay = -1
  /\ doneToday = 0
  /\ saving = <<>>

Command(last) == CommandWith(last, {Prefs(a) : a \in BOOLEAN})

\* no parser is under test
NoCall == text = <<>> /\ parsed = <<>>

Init == Command(MaxNow) /\ NoCall

----------------------------------------------------------------------------
(* loadState, from its getItem settling to its return *)

NewRun == fired' = 0 /\ cont' = NoCont

loadState ==
  /\ loadStatePending
  /\ loadStatePending' = FALSE
  /\ LET restorable == /\ storedTimer # <<>>
                       /\ storedTimer[1] # EmptyObject
                       /\ storedTimer[1].timerState \in {"running", "paused"}
         state == storedTimer[1]
         savedTime == OrElse(state.startTime, now)
         savedDuration == OrElse(state.customTimerDuration, getDuration(state.timerMode))
         calculatedTimeLeft == Remaining(savedDuration, savedTime, now)
     IN IF storedTimer = <<Unparseable>>
        THEN \* JSON.parse throws: the catch removes the key and nothing is set
             /\ storedTimer' = <<>>
             /\ UNCHANGED <<react, interval>>
        ELSE IF restorable /\ calculatedTimeLeft > 0
        THEN Render(calculatedTimeLeft, state.timerMode, state.timerState, savedTime,
                    savedDuration, stats, storedTimer)
        ELSE IF customDuration # 0
             THEN Render(customDuration, timerMode, "running", now, customDuration,
                         stats, storedTimer)
             ELSE UNCHANGED <<react, interval, storedTimer>>
  /\ NewRun
  /\ UNCHANGED <<env, storedStats, loadStatsPending, handler, autoStart, hud, fx,
                 focusDone, doneDays, lastDoneDay,
                 doneToday>>

(* loadStats, from its getItem settling to its return *)

\* a load that moves the date and keeps the daily count
DailyResetKeepsCount(loadedStats) ==
  [loadedStats EXCEPT !.lastCompletedDate = today]

DailyReset(loadedStats) ==
  IF loadedStats.lastCompletedDate # today
  THEN [loadedStats EXCEPT !.todayPomodoros = 0, !.lastCompletedDate = today]
  ELSE loadedStats

loadStats ==
  /\ loadStatsPending
  /\ loadStatsPending' = FALSE
  /\ IF storedStats # <<>>
     THEN Render(timeLeft, timerMode, timerState, startTime, customTimerDuration,
                 DailyReset(storedStats[1]), storedTimer)
     ELSE UNCHANGED <<react, interval, storedTimer>>
  /\ UNCHANGED <<env, storedStats, loadStatePending, handler, autoStart, hud, history>>

----------------------------------------------------------------------------
(* The interval callback.  It reads startTime, timerMode and               *)
(* customTimerDuration of the render that set it (equal to the current     *)
(* ones, being dependencies of the effect) and calls that render's         *)
(* handleTimerComplete, which runs to its first await: setTimerState and   *)
(* the removeItem request.                                                 *)

Tick ==
  /\ interval # <<>>
  /\ LET duration == ActiveDuration(timerMode, customTimerDuration)
         newTimeLeft == Remaining(duration, startTime, now)
     IN IF newTimeLeft <= 0
        THEN /\ Render(newTimeLeft, timerMode, "complete", startTime, customTimerDuration,
                       stats, storedTimer)
             /\ handler' = [pc |-> "remove", mode |-> timerMode,
                            stats |-> interval[1].stats, custom |-> customTimerDuration,
                            newStats |-> interval[1].stats]
             /\ fired' = fired + 1
             /\ fx' = IF fired = 0 THEN [NoFx EXCEPT !.duration = duration] ELSE fx
             /\ cont' = NoCont
        ELSE /\ Render(newTimeLeft, timerMode, timerState, startTime, customTimerDuration,
                       stats, storedTimer)
             /\ UNCHANGED <<handler, fired, fx, cont>>
  /\ UNCHANGED <<env, storedStats, loadStatePending, loadStatsPending, autoStart, hud,
                 focusDone, doneDays, lastDoneDay,
                 doneToday>>

(* The interval callback on a second boundary before the end, when the     *)
(* setItem of the saveState its render issues is slow: saveState is not    *)
(* awaited by the effect, so the write stays in flight while the timer     *)
(* goes on, and settles at any later moment.                               *)

TickSlow ==
  /\ interval # <<>>
  /\ saving = <<>>
  /\ LET duration == ActiveDuration(timerMode, customTimerDuration)
         newTimeLeft == Remaining(duration, startTime, now)
     IN /\ newTimeLeft > 0
        /\ newTimeLeft # timeLeft
        /\ timerState = "running"
        /\ timeLeft' = newTimeLeft
        /\ saving' = <<Snapshot(newTimeLeft, timerMode, timerState, startTime,
                                customTimerDuration)>>
  /\ UNCHANGED <<now, today, prefs, customDuration, horizon, text, parsed, timerMode,
                 timerState, startTime, customTimerDuration, stats, storedTimer,
                 storedStats, loadStatePending, loadStatsPending, interval, handler,
                 autoStart, hud, history>>

SaveSettled ==
  /\ saving # <<>>
  /\ storedTimer' = saving
  /\ saving' = <<>>
  /\ UNCHANGED <<now, today, prefs, customDuration, horizon, text, parsed, react,
                 storedStats, loadStatePending, loadStatsPending, interval, handler,
                 autoStart, hud, history>>

(* handleTimerComplete after removeItem settled: a break shows its HUD and *)
(* returns; a pomodoro computes newStats and requests the stats setItem.   *)

\* newStats crediting the configured focus duration instead of the run's own
NewStatsConfigured(s, custom) ==
  [completedPomodoros |-> s.completedPomodoros + 1,
   totalFocusTime |-> s.totalFocusTime + prefs.pomodoro,
   currentStreak |-> IF s.lastCompletedDate = today THEN s.currentStreak + 1 ELSE 1,
   todayPomodoros |-> s.todayPomodoros + 1,
   lastCompletedDate |-> today]

\* newStats counting the session for the day and not for the lifetime
NewStatsTodayOnly(s, custom) ==
  [completedPomodoros |-> s.completedPomodoros,
   totalFocusTime |-> s.totalFocusTime + custom,
   currentStreak |-> IF s.lastCompletedDate = today THEN s.currentStreak + 1 ELSE 1,
   todayPomodoros |-> s.todayPomodoros + 1,
   lastCompletedDate |-> today]

NewStats(s, custom) ==
  [completedPomodoros |-> s.completedPomodoros + 1,
   totalFocusTime |-> s.totalFocusTime + custom,
   currentStreak |-> IF s.lastCompletedDate = today THEN s.currentStreak + 1 ELSE 1,
   todayPomodoros |-> s.todayPomodoros + 1,
   lastCompletedDate |-> today]

CompleteRemoved ==
  /\ handler.pc = "remove"
  /\ storedTimer' = <<>>
  /\ IF handler.mode = "pomodoro"
     THEN /\ handler' = [handler EXCEPT !.pc = "save",
                                        !.newStats = NewStats(handler.stats, handler.custom)]
          /\ hud' = hud
          /\ fx' = [fx EXCEPT !.removed = @ + 1]
     ELSE /\ handler' = [handler EXCEPT !.pc = "idle"]
          /\ hud' = "break"
          /\ fx' = [fx EXCEPT !.removed = @ + 1, !.huds = @ + 1]
  /\ UNCHANGED <<env, react, storedStats, loadStatePending, loadStatsPending, interval,
                 autoStart, fired, cont, focusDone, doneDays, lastDoneDay,
                 doneToday>>

(* handleTimerComplete of a pomodoro after the stats setItem settled:      *)
(* setStats, the HUD suggestion, and the auto-start setTimeout.            *)

ShouldSuggestLongBreak(newStats) ==
  newStats.completedPomodoros % prefs.longBreakInterval = 0

ShouldStartLongBreak(s) ==
  s.completedPomodoros % prefs.longBreakInterval = 0

CompleteSaved ==
  /\ handler.pc = "save"
  /\ storedStats' = <<handler.newStats>>
  /\ Render(timeLeft, timerMode, timerState, startTime, customTimerDuration,
            handler.newStats, storedTimer)
  /\ hud' = IF ShouldSuggestLongBreak(handler.newStats) THEN "long" ELSE "short"
  /\ autoStart' = IF prefs.autoStartBreaks
                  THEN <<[due |-> now + AutoStartDelay,
                          long |-> ShouldStartLongBreak(handler.stats)]>>
                  ELSE autoStart
  /\ handler' = [handler EXCEPT !.pc = "idle"]
  /\ fx' = [fx EXCEPT !.statsUpdated = @ + 1, !.huds = @ + 1,
                      !.scheduled = IF prefs.autoStartBreaks THEN @ + 1 ELSE @]
  /\ focusDone' = focusDone + 1
  /\ doneDays' = doneDays \cup {today}
  /\ lastDoneDay' = today
  /\ doneToday' = (IF lastDoneDay = today THEN doneToday + 1 ELSE 1)
  /\ UNCHANGED <<env, loadStatePending, loadStatsPending, fired, cont>>

(* handleTimerComplete of a pomodoro when the stats setItem rejects:       *)
(* saveStats' catch logs the error and its setStats is skipped; the HUD    *)
(* and the auto-start setTimeout follow as usual.  Nothing was recorded,   *)
(* so the history of recorded completions is left alone.                   *)

CompleteSaveFailed ==
  /\ handler.pc = "save"
  /\ hud' = IF ShouldSuggestLongBreak(handler.newStats) THEN "long" ELSE "short"
  /\ autoStart' = IF prefs.autoStartBreaks
                  THEN <<[due |-> now + AutoStartDelay,
                          long |-> ShouldStartLongBreak(handler.stats)]>>
                  ELSE autoStart
  /\ handler' = [handler EXCEPT !.pc = "idle"]
  /\ fx' = [fx EXCEPT !.huds = @ + 1,
                      !.scheduled = IF prefs.autoStartBreaks THEN @ + 1 ELSE @]
  /\ UNCHANGED <<env, react, storedTimer, storedStats, loadStatePending, loadStatsPending,
                 interval, fired, cont, focusDone, doneDays, lastDoneDay, doneToday>>

----------------------------------------------------------------------------
(* The commands of the ActionPanel *)

handleStartPomodoro ==
  /\ timerState \in {"idle", "paused", "complete"}
  /\ LET duration == IF customTimerDuration # prefs.pomodoro
                     THEN customTimerDuration ELSE prefs.pomodoro
     IN Render(duration, "pomodoro", "running", now, customTimerDuration, stats, storedTimer)
  /\ NewRun
  /\ UNCHANGED <<env, storedStats, loadStatePending, loadStatsPending, handler, autoStart,
                 hud, fx, focusDone, doneDays, lastDoneDay,
                 doneToday>>

StartBreak(mode, secs) ==
  /\ Render(secs, mode, "running", now, customTimerDuration, stats, storedTimer)
  /\ NewRun
  /\ UNCHANGED <<env, storedStats, loadStatePending, loadStatsPending, handler, hud, fx,
                 focusDone, doneDays, lastDoneDay,
                 doneToday>>

handleStartShortBreak ==
  /\ timerState \in {"idle", "complete"}
  /\ StartBreak("shortBreak", prefs.shortBreak)
  /\ UNCHANGED autoStart

handleStartLongBreak ==
  /\ timerState \in {"idle", "complete"}
  /\ StartBreak("longBreak", prefs.longBreak)
  /\ UNCHANGED autoStart

\* saveState() called from a handler serialises the values of the render the
\* handler belongs to: the state before the handler's own setState calls
handlePause ==
  /\ timerState = "running"
  /\ Render(timeLeft, timerMode, "paused", startTime, customTimerDuration, stats,
            <<Snapshot(timeLeft, timerMode, timerState, startTime, customTimerDuration)>>)
  /\ cont' = [pausedLeft |-> timeLeft, pausedAt |-> now, resumedAt |-> -1,
              exited |-> FALSE]
  /\ UNCHANGED <<env, storedStats, loadStatePending, loadStatsPending, handler, autoStart,
                 hud, fired, fx, focusDone, doneDays, lastDoneDay,
                 doneToday>>

\* a resume that leaves the start of the span where it was
ResumedStartUnadjusted(duration) == startTime

ResumedStart(duration) == now - (duration - timeLeft) * MsPerSec

handleResume ==
  /\ timerState \in {"idle", "paused"}
  /\ LET duration == ActiveDuration(timerMode, customTimerDuration)
     IN Render(timeLeft, timerMode, "running", ResumedStart(duration), customTimerDuration,
               stats, storedTimer)
  /\ IF timerState = "paused" /\ cont.pausedLeft >= 0 /\ ~cont.exited
     THEN cont' = [cont EXCEPT !.resumedAt = now] /\ fired' = fired
     ELSE NewRun
  /\ UNCHANGED <<env, storedStats, loadStatePending, loadStatsPending, handler, autoStart,
                 hud, fx, focusDone, doneDays, lastDoneDay,
                 doneToday>>

handleReset ==
  /\ timerState \in {"running", "paused"}
  /\ LET duration == ActiveDuration(timerMode, customTimerDuration)
     IN Render(duration, timerMode, "idle", now, customTimerDuration, stats,
               <<Snapshot(timeLeft, timerMode, timerState, startTime, customTimerDuration)>>)
  /\ NewRun
  /\ UNCHANGED <<env, storedStats, loadStatePending, loadStatsPending, handler, autoStart,
                 hud, fx, focusDone, doneDays, lastDoneDay,
                 doneToday>>

(* The setTimeout callback of handleTimerComplete *)

AutoStartFire ==
  /\ autoStart # <<>>
  /\ now >= autoStart[1].due
  /\ autoStart' = <<>>
  /\ IF autoStart[1].long
     THEN StartBreak("longBreak", prefs.longBreak)
     ELSE StartBreak("shortBreak", prefs.shortBreak)

----------------------------------------------------------------------------
(* The environment: the clock, midnight, and the command being closed and  *)
(* launched again (all in-memory state and pending callbacks are lost).    *)

Settled == ~loadStatePending /\ ~loadStatsPending /\ handler.pc = "idle"

Advance ==
  /\ Settled
  /\ now + ClockStep <= horizon
  /\ autoStart # <<>> => now < autoStart[1].due
  /\ now' = now + ClockStep
  /\ UNCHANGED <<today, prefs, customDuration, horizon, text, parsed, saving, react, storedTimer, storedStats,
                 loadStatePending, loadStatsPending, interval, handler, autoStart, hud,
                 history>>

Midnight ==
  /\ Settled
  /\ today < MaxDay
  /\ today' = today + 1
  /\ UNCHANGED <<now, prefs, customDuration, horizon, text, parsed, saving, react, storedTimer, storedStats,
                 loadStatePending, loadStatsPending, interval, handler, autoStart, hud,
                 history>>

Launch ==
  /\ customDuration' \in Arguments
  /\ timeLeft' = InitialDuration(customDuration')
  /\ timerMode' = "pomodoro"
  /\ timerState' = "idle"
  /\ startTime' = now
  /\ customTimerDuration' = InitialDuration(customDuration')
  /\ stats' = ZeroStats(today)
  /\ loadStatePending' = TRUE
  /\ loadStatsPending' = TRUE
  /\ interval' = <<>>
  /\ handler' = NoHandler
  /\ autoStart' = <<>>
  /\ hud' = "none"
  /\ fired' = 0
  /\ fx' = NoFx
  /\ cont' = IF timerState = "paused" /\ cont.pausedLeft >= 0
             THEN [cont EXCEPT !.exited = TRUE]
             ELSE NoCont
  /\ UNCHANGED <<now, today, prefs, horizon, storedTimer, storedStats, focusDone, doneDays,
                 lastDoneDay, doneToday, text, parsed, saving>>

(* The snapshot key damaged while the command was closed, found at launch *)

Damage ==
  /\ loadStatePending /\ loadStatsPending
  /\ \E v \in Corrupt :
       /\ storedTimer # <<v>>
       /\ storedTimer' = <<v>>
  /\ UNCHANGED <<env, react, storedStats, loadStatePending, loadStatsPending, interval,
                 handler, autoStart, hud, history>>

(* The parsers applied to a string *)

CallParseDuration ==
  /\ parsed = <<>>
  /\ parsed' = <<[fn |-> "parseDuration", value |-> parseDuration(text)]>>
  /\ UNCHANGED <<now, today, prefs, customDuration, horizon, text, saving, react, storedTimer,
                 storedStats, loadStatePending, loadStatsPending, interval, handler,
                 autoStart, hud, history>>

ResolveLongBreakInterval ==
  /\ parsed = <<>>
  /\ parsed' = <<[fn |-> "longBreakInterval", value |-> longBreakInterval(text)]>>
  /\ UNCHANGED <<now, today, prefs, customDuration, horizon, text, saving, react, storedTimer,
                 storedStats, loadStatePending, loadStatsPending, interval, handler,
                 autoStart, hud, history>>

(* A stats record left in storage by earlier use of the command, found at  *)
(* the first launch: any record JSON.stringify(newStats) can have written  *)
(* with a daily count within its lifetime count.                           *)

StoredRecords ==
  {[completedPomodoros |-> c, totalFocusTime |-> c * PomodoroSecs, currentStreak |-> k,
    todayPomodoros |-> t, lastCompletedDate |-> d] :
     c \in 0..MaxStored, t \in 0..MaxStored, k \in 0..1, d \in 0..MaxDay}

Install ==
  /\ loadStatePending /\ loadStatsPending
  /\ storedStats = <<>> /\ focusDone = 0
  /\ \E r \in StoredRecords :
       /\ r.todayPomodoros <= r.completedPomodoros
       /\ storedStats' = <<r>>
  /\ UNCHANGED <<env, react, storedTimer, loadStatePending, loadStatsPending, interval,
                 handler, autoStart, hud, history>>

----------------------------------------------------------------------------
(* Every command, under every interleaving with the pending storage calls, *)
(* within one calendar day.                                                *)

Next ==
  \/ loadState
  \/ loadStats
  \/ Tick
  \/ CompleteRemoved
  \/ CompleteSaved
  \/ handleStartPomodoro
  \/ handleStartShortBreak
  \/ handleStartLongBreak
  \/ handlePause
  \/ handleResume
  \/ handleReset
  \/ AutoStartFire
  \/ Advance
  \/ Launch

Spec == Init /\ [][Next]_vars

(* The pomodoro commands across midnight: breaks start only by auto-start. *)

NextDays ==
  \/ loadState
  \/ loadStats
  \/ Tick
  \/ CompleteRemoved
  \/ CompleteSaved
  \/ handleStartPomodoro
  \/ handlePause
  \/ handleResume
  \/ handleReset
  \/ AutoStartFire
  \/ Advance
  \/ Midnight
  \/ Launch

SpecDays == Init /\ [][NextDays]_vars

(* Every command within one calendar day; the user acts, and closes the   *)
(* command, only while no storage call is pending.                         *)

NextSettled ==
  \/ loadState
  \/ loadStats
  \/ Tick
  \/ CompleteRemoved
  \/ CompleteSaved
  \/ Settled /\ handleStartPomodoro
  \/ Settled /\ handleStartShortBreak
  \/ Settled /\ handleStartLongBreak
  \/ Settled /\ handlePause
  \/ Settled /\ handleResume
  \/ Settled /\ handleReset
  \/ AutoStartFire
  \/ Advance
  \/ Settled /\ Launch

SpecSettled == Init /\ [][NextSettled]_vars

(* Sessions started over records found in storage, across midnight.        *)

NextStored ==
  \/ Install
  \/ loadState
  \/ loadStats
  \/ Tick
  \/ CompleteRemoved
  \/ CompleteSaved
  \/ Settled /\ handleStartPomodoro
  \/ Settled /\ handleStartShortBreak
  \/ AutoStartFire
  \/ Advance
  \/ Midnight
  \/ Settled /\ Launch

SpecStored == Init /\ [][NextStored]_vars

(* Every command, the user acting only while no storage call is pending,  *)
(* with the focus session longer than the breaks and auto-start-breaks    *)
(* off.  The remaining time can grow without bound here, so the resume    *)
(* command is cut off at MaxLeft.                                          *)

InitLongFocus == CommandWith(MaxNow, {PrefsLongFocus(FALSE)}) /\ NoCall

NextLongFocus ==
  \/ loadState
  \/ loadStats
  \/ Tick
  \/ CompleteRemoved
  \/ CompleteSaved
  \/ Settled /\ handleStartPomodoro
  \/ Settled /\ handleStartShortBreak
  \/ Settled /\ handleStartLongBreak
  \/ Settled /\ handlePause
  \/ Settled /\ timeLeft <= MaxLeft /\ handleResume
  \/ Settled /\ handleReset
  \/ Advance
  \/ Settled /\ Launch

SpecLongFocus == InitLongFocus /\ [][NextLongFocus]_vars

(* A storage that does not settle its calls in the order they were issued: *)
(* a snapshot save may settle after saves and removals issued later.       *)

NextUnordered ==
  \/ loadState
  \/ loadStats
  \/ Tick
  \/ TickSlow
  \/ SaveSettled
  \/ CompleteRemoved
  \/ CompleteSaved
  \/ Settled /\ handleStartPomodoro
  \/ Settled /\ handleStartShortBreak
  \/ AutoStartFire
  \/ Advance

SpecUnordered == Init /\ [][NextUnordered]_vars

(* Launches over a damaged snapshot key. *)

NextCorrupt ==
  \/ Damage
  \/ loadState
  \/ loadStats
  \/ Tick
  \/ CompleteRemoved
  \/ CompleteSaved
  \/ Settled /\ handleStartPomodoro
  \/ Settled /\ handlePause
  \/ AutoStartFire
  \/ Advance
  \/ Settled /\ Launch

SpecCorrupt == Init /\ [][NextCorrupt]_vars

(* The parsers, on every string of up to MaxLen characters. *)

InitParse ==
  /\ Command(MaxNow)
  /\ ~prefs.autoStartBreaks
  /\ customDuration = 0
  /\ text \in Texts
  /\ parsed = <<>>

NextParse ==
  \/ CallParseDuration
  \/ ResolveLongBreakInterval

SpecParse == InitParse /\ [][NextParse]_vars

(* Focus sessions only, with auto-start-breaks off, over a longer time:    *)
(* the launch, the loads, the start-pomodoro command, the interval and the *)
(* completion handler.                                                     *)

InitFocus == Command(MaxNowLong) /\ NoCall /\ ~prefs.autoStartBreaks

NextFocus ==
  \/ loadState
  \/ loadStats
  \/ Tick
  \/ CompleteRemoved
  \/ CompleteSaved
  \/ Settled /\ handleStartPomodoro
  \/ Advance
  \/ Midnight
  \/ Settled /\ Launch

SpecFocus == InitFocus /\ [][NextFocus]_vars

(* The same, with a storage that may reject the stats write. *)

NextFaulty ==
  \/ loadState
  \/ loadStats
  \/ Tick
  \/ CompleteRemoved
  \/ CompleteSaved
  \/ CompleteSaveFailed
  \/ Settled /\ handleStartPomodoro
  \/ Advance
  \/ Midnight
  \/ Settled /\ Launch

SpecFaulty == InitFocus /\ [][NextFaulty]_vars

(* The same, with the two mount-time loads settling before the first       *)
(* re-render (React batches their setState calls into one render): the     *)
(* interval of a restored or auto-started timer closes over loaded stats.  *)

NextBatched ==
  \/ ~loadStatsPending /\ loadState
  \/ loadStats
  \/ Tick
  \/ CompleteRemoved
  \/ CompleteSaved
  \/ Settled /\ handleStartPomodoro
  \/ Advance
  \/ Midnight
  \/ Settled /\ Launch

SpecBatched == InitFocus /\ [][NextBatched]_vars

----------------------------------------------------------------------------
(* The claims *)

ShownDuration == ActiveDuration(timerMode, customTimerDuration)
Elapsed == (now - startTime) \div MsPerSec
StoredCount == IF storedStats = <<>> THEN 0 ELSE storedStats[1].completedPomodoros
LoadStateStep == loadStatePending /\ ~loadStatePending'
FocusCompletionStep == focusDone' = focusDone + 1

\* C1: after Running -> pause -> resume with nothing in between, the remaining
\* time the check computes equals the remaining time shown at the pause, less
\* the whole seconds passed since the resume, whatever time was spent paused.
ResumeContinuity ==
  cont.resumedAt >= 0 =>
    Remaining(ShownDuration, startTime, now)
      = Max(0, cont.pausedLeft - ((now - cont.resumedAt) \div MsPerSec))

\* C1's case: a run paused part-way, resumed at least a second later
ResumedAfterPause ==
  /\ cont.resumedAt >= cont.pausedAt + MsPerSec
  /\ cont.pausedLeft > 0
  /\ cont.pausedLeft < ShownDuration
  /\ timerState = "running"
  /\ now > cont.resumedAt

\* C2: a run's completion handler is invoked at most once, each of its side
\* effects (snapshot removal, stats update, HUD message, auto-start timeout) is
\* issued at most once, and once the handler has returned each has been issued
\* exactly once (the stats update for a pomodoro, the timeout for a pomodoro
\* with auto-start-breaks on).
CompletionOnce ==
  /\ fired <= 1
  /\ fx.removed <= 1 /\ fx.statsUpdated <= 1 /\ fx.huds <= 1 /\ fx.scheduled <= 1
  /\ timerState = "complete" /\ handler.pc = "idle" =>
       /\ fired = 1
       /\ fx.removed = 1
       /\ fx.huds = 1
       /\ fx.statsUpdated = (IF timerMode = "pomodoro" THEN 1 ELSE 0)
       /\ fx.scheduled = (IF timerMode = "pomodoro" /\ prefs.autoStartBreaks THEN 1 ELSE 0)

\* C2's case: a completed pomodoro, its handler returned, the clock past the
\* moment the remaining time reached 0
CompletedOnce ==
  /\ timerState = "complete"
  /\ handler.pc = "idle"
  /\ fired = 1
  /\ fx.statsUpdated = 1
  /\ fx.scheduled = 1
  /\ now > startTime + fx.duration * MsPerSec

\* C3: every Focus completion stores a completedCount one greater than the
\* value persisted before it.
CompletedCountMonotonic ==
  [][FocusCompletionStep => storedStats'[1].completedPomodoros = StoredCount + 1]_vars

\* C4: a timer paused by the pause command, the command then closed and
\* launched again, is restored by the load step as Paused with the remaining
\* time it had when it was paused.
PauseSurvivesRestart ==
  [][cont.exited /\ LoadStateStep =>
       timerState' = "paused" /\ timeLeft' = cont.pausedLeft]_vars

\* C5: a stored Running or Paused snapshot with remaining time > 0 is restored
\* with its state, mode and startTime, and with remaining = duration -
\* floor(now - startTime) for the duration in force for its mode (the break
\* duration for a break, the focus or custom duration for a pomodoro).
DurationInForce(snapshot) ==
  IF snapshot.timerMode = "pomodoro"
  THEN snapshot.customTimerDuration
  ELSE getDuration(snapshot.timerMode)

RestoreInPlace ==
  [][(/\ LoadStateStep
      /\ storedTimer # <<>>
      /\ storedTimer[1].timerState \in {"running", "paused"}
      /\ Remaining(DurationInForce(storedTimer[1]), storedTimer[1].startTime, now) > 0)
     => /\ timerState' = storedTimer[1].timerState
        /\ timerMode' = storedTimer[1].timerMode
        /\ startTime' = storedTimer[1].startTime
        /\ timeLeft' = Remaining(DurationInForce(storedTimer[1]),
                                 storedTimer[1].startTime, now)]_vars

\* C6: after a reset command no Running or Paused snapshot is left in storage.
ResetDeletesSnapshot ==
  [][handleReset =>
       \/ storedTimer' = <<>>
       \/ storedTimer'[1].timerState \notin {"running", "paused"}]_vars

LongBreakCadence ==
  [][FocusCompletionStep =>
       hud' = (IF focusDone' % prefs.longBreakInterval = 0 THEN "long" ELSE "short")]_vars

\* C9: a Focus completion on the day of the most recent completion increases
\* currentStreak by 1; one on another day sets currentStreak to 1.
StreakArithmetic ==
  [][FocusCompletionStep =>
       stats'.currentStreak
         = (IF lastDoneDay = today THEN stats.currentStreak + 1 ELSE 1)]_vars

\* C10: currentStreak never exceeds the number of distinct days on which a
\* Focus session was completed.
StreakCountsDays == stats.currentStreak <= Cardinality(doneDays)

\* C11: after every Focus completion, todayPomodoros equals the number of Focus
\* sessions completed on the calendar day of lastCompletedDate, also when the
\* command stays open across midnight between two completions.
TodayCountsDay ==
  [][FocusCompletionStep =>
       /\ stats'.lastCompletedDate = lastDoneDay'
       /\ stats'.todayPomodoros = doneToday']_vars

LoadStatsStep == loadStatsPending /\ ~loadStatsPending'

\* C12: loading a stored stats record whose lastCompletedDate is not today
\* yields todayPomodoros = 0 in memory with completedPomodoros, totalFocusTime
\* and currentStreak as stored; loading one whose lastCompletedDate is today
\* yields the stored record, every field unchanged.
DailyResetFrame ==
  [][(LoadStatsStep /\ storedStats # <<>>) =>
       IF storedStats[1].lastCompletedDate # today
       THEN /\ stats'.todayPomodoros = 0
            /\ stats'.completedPomodoros = storedStats[1].completedPomodoros
            /\ stats'.totalFocusTime = storedStats[1].totalFocusTime
            /\ stats'.currentStreak = storedStats[1].currentStreak
       ELSE stats' = storedStats[1]]_vars

\* C12's case: a record of another day, with a daily count, has been loaded
DailyResetDone ==
  /\ ~loadStatsPending
  /\ storedStats # <<>>
  /\ storedStats[1].lastCompletedDate # today
  /\ storedStats[1].todayPomodoros > 0
  /\ storedStats[1].currentStreak > 0
  /\ stats = [storedStats[1] EXCEPT !.todayPomodoros = 0, !.lastCompletedDate = today]

\* C13: todayPomodoros <= completedPomodoros in every reachable state, in
\* memory and in storage, given it holds for the record first found in storage.
TodayWithinTotal ==
  /\ stats.todayPomodoros <= stats.completedPomodoros
  /\ storedStats # <<>> => storedStats[1].todayPomodoros <= storedStats[1].completedPomodoros

\* C13's case: a Focus completion recorded over a found record whose daily
\* count was 0 (reset at the load, or stored so)
CompletedAfterReset ==
  /\ focusDone >= 1
  /\ storedStats = <<stats>>
  /\ stats.todayPomodoros = 1
  /\ stats.completedPomodoros = MaxStored + 1

\* The duration a string means: its decomposition into whitespace, digits, an
\* optional unit and whitespace, read independently of parseDuration.
AllIn(str, from, to, set) == \A k \in from..to : str[k] \in set

DecimalDigits == {"0", "1", "2", "3", "4", "5", "6", "7", "8", "9"}

RECURSIVE NumberAt(_, _, _)
NumberAt(str, from, to) ==
  IF from > to THEN 0
  ELSE DigitValue(str[from]) * 10 ^ (to - from) + NumberAt(str, from + 1, to)

UnitSeconds(c) ==
  CASE c \in {"s", "S"} -> 1 [] c \in {"m", "M"} -> 60 [] c \in {"h", "H"} -> 3600

\* <<a, b, c>>: whitespace up to a, digits up to b > a, a unit at c = b + 1 (none
\* when c = b), whitespace after c
DurationShapes(str) ==
  {sh \in (0..Len(str)) \X (0..Len(str)) \X (0..Len(str)) :
     /\ sh[1] < sh[2]
     /\ sh[3] \in {sh[2], sh[2] + 1}
     /\ AllIn(str, 1, sh[1], {" "})
     /\ AllIn(str, sh[1] + 1, sh[2], DecimalDigits)
     /\ AllIn(str, sh[2] + 1, sh[3], {"s", "S", "m", "M", "h", "H"})
     /\ AllIn(str, sh[3] + 1, Len(str), {" "})}

DurationMeant(str) ==
  IF DurationShapes(str) = {} THEN 0
  ELSE LET sh == CHOOSE x \in DurationShapes(str) : TRUE
           secs == NumberAt(str, sh[1] + 1, sh[2])
                     * (IF sh[3] = sh[2] THEN 60 ELSE UnitSeconds(str[sh[3]]))
       IN IF secs >= 10 /\ secs <= 14400 THEN secs ELSE 0

\* C14: for an input of the form <non-negative integer><optional unit s|m|h in
\* any letter case>, surrounding whitespace ignored, parseDuration returns
\* integer * unit seconds (no unit: minutes) when that lies in [10, 14400] and
\* null otherwise; every other input, the empty one included, gives null.
ParseDurationRule ==
  (parsed # <<>> /\ parsed[1].fn = "parseDuration") =>
     /\ parsed[1].value = DurationMeant(text)
     /\ text = <<"2", "5", "m">> => parsed[1].value = 1500
     /\ text = <<"1", "h">> => parsed[1].value = 3600
     /\ text \in {<<"5", "s">>, <<>>, <<"a", "a", "a">>} => parsed[1].value = 0

\* C14's case: a duration at the upper end of the range, in hours, upper case,
\* with whitespace around it
ParsedFourHours ==
  /\ text = <<" ", "4", "H", " ">>
  /\ parsed = <<[fn |-> "parseDuration", value |-> 14400]>>

\* C15: the resolved longBreakInterval is 4 whenever the configured value is
\* absent, unparseable, zero or negative, so it is always a positive integer.
ResolvedIntervalPositive ==
  (parsed # <<>> /\ parsed[1].fn = "longBreakInterval") =>
     /\ parsed[1].value >= 1
     /\ text \in {<<>>, <<"a">>, <<"0">>, <<"-", "1">>} => parsed[1].value = 4

\* C16: a launch-argument duration overrides the focus duration for one session
\* only: once the session run with it has completed, a pomodoro started by the
\* start-pomodoro command runs with the configured focus duration.
CustomForOneSession ==
  [][(/\ handleStartPomodoro
      /\ customDuration # 0 /\ customDuration # prefs.pomodoro
      /\ timerState = "complete" /\ timerMode = "pomodoro"
      /\ fx.duration = customDuration)
     => timeLeft' = prefs.pomodoro]_vars

\* C17: a malformed or unparseable stored snapshot is treated as absent: the
\* load step removes the stored value and leaves the timer as it leaves it
\* when nothing is stored, Running with the argument's duration from now when
\* a valid launch-argument duration was given.
MalformedAsAbsent ==
  [][(LoadStateStep /\ storedTimer # <<>> /\ storedTimer[1] \in Corrupt) =>
       /\ storedTimer' = <<>> \/ storedTimer'[1] \notin Corrupt
       /\ IF customDuration # 0
          THEN /\ timerState' = "running"
               /\ timerMode' = "pomodoro"
               /\ timeLeft' = customDuration
               /\ startTime' = now
          ELSE UNCHANGED react]_vars

\* C18: when the stats write fails at a Focus completion, the timer is
\* Complete and the in-memory stats still reflect the completion: the counts,
\* the focus time and the streak the completion computed.
WriteFailureKeepsMemory ==
  [][CompleteSaveFailed =>
       /\ timerState' = "complete"
       /\ stats' = handler.newStats]_vars

\* C19: with auto-start-breaks on, the break started automatically after a
\* Focus completion is in the mode that completion suggested: a long break if
\* and only if its HUD suggested a long break, a short break otherwise.
AutoStartAsSuggested ==
  [][AutoStartFire =>
       timerMode' = (IF hud = "long" THEN "longBreak" ELSE "shortBreak")]_vars

\* C20: Running is entered only from Idle, Paused or Complete: no step
\* changes the mode or restarts the clock of a session that is Running and
\* stays Running, the delayed auto-start callback included.
RunningNotReplaced ==
  [][(timerState = "running" /\ timerState' = "running") =>
       (timerMode' = timerMode /\ startTime' = startTime)]_vars

\* C21: when the load step finds a Running or Paused snapshot whose recomputed
\* remaining time is <= 0, that snapshot is not left in storage at the end of
\* the load step.
ExpiredSnapshotCleared ==
  [][(/\ LoadStateStep
      /\ storedTimer # <<>>
      /\ storedTimer[1] \notin Corrupt
      /\ storedTimer[1].timerState \in {"running", "paused"}
      /\ Remaining(OrElse(storedTimer[1].customTimerDuration,
                          getDuration(storedTimer[1].timerMode)),
                   OrElse(storedTimer[1].startTime, now), now) <= 0)
     => storedTimer' # storedTimer]_vars

\* C22: once a run has reached Complete and every storage call issued up to
\* then has settled, the snapshot key is absent, in whatever order the saves
\* issued while Running and the removal issued at completion settle.
NoSnapshotAfterComplete ==
  (timerState = "complete" /\ handler.pc = "idle" /\ saving = <<>>) => storedTimer = <<>>

\* C23: in every reachable state, also right after the load step restored a
\* focus or break snapshot and after a resume that follows it, the remaining
\* time satisfies 0 <= timeLeft <= the duration in force for the current mode.
RemainingWithinDuration ==
  timeLeft >= 0 /\ timeLeft <= ShownDuration

====
